---- MODULE Spec2Model ----
\* Task Management API (src/main.py) and the user service
\* (src/services/User_service.py): credential store, token codec, identity
\* resolution and access control, as a state machine over the database tables.
EXTENDS Integers, FiniteSets, Sequences, TLC

\* ------------------------------------------------------------------ bounds
\* a plaintext password is [head, tail]: head its first 72 bytes, tail the bytes
\* after them ("" for a password of at most 72 bytes)
Secret == [head |-> "Secret123!", tail |-> ""]
WrongPassword == [head |-> "not-the-password", tail |-> ""]
\* two passwords of 73 bytes that differ in the last byte only
LongPassword == [head |-> "72-bytes-of-passphrase", tail |-> "a"]
LongPasswordTwin == [head |-> "72-bytes-of-passphrase", tail |-> "b"]
NoPassword == [head |-> "", tail |-> ""]
\* the UserRegister payloads clients send
Alice == [email |-> "alice@x.com", username |-> "alice", password |-> Secret]
Bob == [email |-> "bob@x.com", username |-> "bob", password |-> Secret]
Carol == [email |-> "carol@x.com", username |-> "carol", password |-> Secret]
\* a registration with a password of 73 characters (UserRegister allows 100)
Dave == [email |-> "dave@x.com", username |-> "dave", password |-> LongPassword]
\* payloads that collide on the email alone, on the username alone, or on both
Colliding ==
    [email : {Alice.email, Bob.email}, username : {Alice.username, Bob.username},
     password : {Alice.password}]
\* highest primary key the users table hands out
MaxUserId == 3
\* highest primary key the tasks table hands out
MaxTaskId == 2
MaxListed == 101
\* number of distinct tokens login may issue
MaxTokens == 2
\* the clock counts ticks, TicksPerSecond to the second; it advances in steps of
\* TickMinutes minutes up to MaxTime minutes, and in single ticks up to MaxTocks
TicksPerSecond == 2
TickMinutes == 30
MaxTime == 60
MaxTocks == 4
\* concurrent register requests
NumClients == 2

\* ------------------------------------------------------- program constants
SECRET_KEY == "your-secret-key-change-in-production"
ATTACKER_KEY == "some-other-key"
ACCESS_TOKEN_EXPIRE_MINUTES == 30
DEFAULT_LIMIT == 100
\* create_access_token without expires_delta: timedelta(minutes=15)
DEFAULT_EXPIRE_MINUTES == 15
\* timedelta(minutes=m) holds 60 * m seconds
SecondsPerMinute == 60
UserRole == {"admin", "user", "guest"}
TaskStatus == {"pending", "in_progress", "completed"}
Backends == {"postgresql", "sqlite"}

HTTP_200_OK == 200
HTTP_201_CREATED == 201
HTTP_204_NO_CONTENT == 204
HTTP_400_BAD_REQUEST == 400
HTTP_401_UNAUTHORIZED == 401
HTTP_403_FORBIDDEN == 403
HTTP_404_NOT_FOUND == 404
HTTP_500_INTERNAL_SERVER_ERROR == 500

Clients == 1..NumClients
UserIds == 1..MaxUserId
TaskIds == 1..MaxTaskId

VARIABLES
    backend,      \* database engine behind DATABASE_URL
    users,        \* rows of table "users"
    tasks,        \* rows of table "tasks"
    user_id_seq,  \* last value of the users primary-key sequence (postgresql)
    task_id_seq,  \* last value of the tasks primary-key sequence (postgresql)
    now,          \* wall clock, ticks since the start
    issued,       \* tokens handed to clients by login
    pc,           \* per register request: "idle" or "commit" (between query and commit)
    reg,          \* per register request: the UserRegister payload being inserted
    resp,         \* the response being returned, NoResp between requests
    svc_users,    \* rows of the table behind models.user.User (UserService)
    svc_uuids,    \* number of uuid4() values drawn so far
    svc_issued,   \* tokens UserService.register and UserService.login returned
    svc_resp      \* what the UserService call in progress returns or raises

main_vars == <<backend, users, tasks, user_id_seq, task_id_seq, issued, pc, reg, resp>>
svc_vars == <<svc_users, svc_uuids, svc_issued, svc_resp>>
vars == <<main_vars, now, svc_vars>>

\* an argument that was not given
None == "None"

\* timedelta(seconds=n) and timedelta(minutes=m), in ticks
timedelta_seconds(n) == n * TicksPerSecond
timedelta_minutes(m) == timedelta_seconds(m * SecondsPerMinute)

\* timegm(d.utctimetuple()): the NumericDate of an instant, its whole second
\* (kept in ticks); the fraction of the second is dropped
timegm(instant) == instant - (instant % TicksPerSecond)

\* a bearer string is [form, payload, sig, slack]: form "absent" is a request
\* without an Authorization header, "garbage" a string that is not three
\* base64url segments with a JSON header naming HS256, "jwt" a well-formed
\* header.payload.signature. sig is the byte string the third segment encodes;
\* slack is the two low bits of its last character, which encode no byte of a
\* 32-byte digest (43 characters carry 258 bits)
NoPayload == [sub |-> 0, username |-> "", role |-> "", exp |-> 0]
NoToken == [form |-> "absent", payload |-> NoPayload, sig |-> <<NoPayload, "">>, slack |-> 0]
Malformed == [form |-> "garbage", payload |-> NoPayload, sig |-> <<NoPayload, "">>, slack |-> 0]
NoData == [email |-> "", username |-> "", password |-> NoPassword]
\* no response is being returned: the server is ready for the next request
NoResp == [op |-> "none", code |-> 0, detail |-> "", body |-> {}]

\* ------------------------------------------------------------ passwords
\* bcrypt digests the first 72 bytes of the secret and ignores the rest
bcrypt(secret) == <<"digest", secret.head>>

\* pwd_context.hash (CryptContext(schemes=["bcrypt"])): the algorithm tag and the
\* one-way digest
get_password_hash(password) == <<"$2b$", bcrypt(password)>>

\* pwd_context.verify: "True" or "False", or the exception passlib raises: a
\* string no scheme of the context identifies is an UnknownHashError, a bcrypt
\* string whose checksum is not whole a ValueError
pwd_context_verify(secret, hash) ==
    IF hash[1] # "$2b$" THEN "UnknownHashError"
    ELSE IF Len(hash[2]) # Len(bcrypt(secret)) THEN "ValueError"
    ELSE IF hash[2] = bcrypt(secret) THEN "True"
    ELSE "False"

\* verify_password returns pwd_context.verify: TRUE when that returns True
verify_password(plain_password, hashed_password) ==
    pwd_context_verify(plain_password, hashed_password) = "True"

\* verify_password lets the exception of pwd_context.verify through
verify_password_raises(plain_password, hashed_password) ==
    pwd_context_verify(plain_password, hashed_password) \notin {"True", "False"}

\* stored strings that are no bcrypt hash: one of another scheme, and a bcrypt
\* string cut short
Unrecognised == <<"md5", <<"digest", Secret.head>>>>
MalformedBcrypt == <<"$2b$", <<"digest">>>>

\* ------------------------------------------------------------ token codec
\* HMAC-SHA256 of the payload under a key: equal exactly for equal payload and key
HS256(payload, key) == <<payload, key>>

\* jwt.encode(to_encode, SECRET_KEY, algorithm=ALGORITHM): the signature segment
\* is written canonically, its spare bits zero
jwt_encode(payload, key) ==
    [form |-> "jwt", payload |-> payload, sig |-> HS256(payload, key), slack |-> 0]

\* a create_access_token that forgets expires_delta
MutCreateAccessTokenNoDelta(data, expires_delta) ==
    jwt_encode([sub |-> data.sub, username |-> data.username, role |-> data.role,
                exp |-> timegm(now)], SECRET_KEY)

\* create_access_token: copies data and adds exp = utcnow() + expires_delta, or
\* 15 minutes when expires_delta is falsy (None or timedelta(0), both 0 here);
\* jwt.encode writes exp as a NumericDate
create_access_token(data, expires_delta) ==
    LET expire == IF expires_delta # 0
                  THEN now + expires_delta
                  ELSE now + timedelta_minutes(DEFAULT_EXPIRE_MINUTES) IN
    jwt_encode([sub |-> data.sub, username |-> data.username, role |-> data.role,
                exp |-> timegm(expire)], SECRET_KEY)

\* jwt.decode(token, SECRET_KEY, algorithms=[ALGORITHM]): the failure it raises, or
\* "ok". base64url decoding of the signature segment drops its spare bits, so
\* slack is not read; exp is compared with the clock, fraction included
jwt_decode(token) ==
    IF token.form # "jwt" THEN "DecodeError"
    ELSE IF token.sig # HS256(token.payload, SECRET_KEY) THEN "InvalidSignatureError"
    ELSE IF token.payload.exp <= now THEN "ExpiredSignatureError"
    ELSE "ok"

\* decode_token: TokenData on success, 401 on any InvalidTokenError
decode_token(token) ==
    IF jwt_decode(token) = "ok"
    THEN [code |-> HTTP_200_OK, detail |-> "", user_id |-> token.payload.sub,
          username |-> token.payload.username, role |-> token.payload.role]
    ELSE [code |-> HTTP_401_UNAUTHORIZED, detail |-> "Invalid authentication credentials",
          user_id |-> 0, username |-> "", role |-> ""]

\* db.query(User).filter(User.id == user_id)
UsersById(user_id) == {u \in users : u.id = user_id}

\* a resolver that trusts the role claim of the token instead of the row
MutGetCurrentUserRoleFromToken(token) ==
    IF token.form = "absent"
    THEN [code |-> HTTP_403_FORBIDDEN, detail |-> "Not authenticated", user |-> NoData]
    ELSE
    LET token_data == decode_token(token) IN
    IF token_data.code # HTTP_200_OK
    THEN [code |-> token_data.code, detail |-> token_data.detail, user |-> NoData]
    ELSE IF UsersById(token_data.user_id) = {}
    THEN [code |-> HTTP_401_UNAUTHORIZED, detail |-> "User not found", user |-> NoData]
    ELSE LET user == CHOOSE u \in UsersById(token_data.user_id) : TRUE IN
         IF ~user.is_active
         THEN [code |-> HTTP_403_FORBIDDEN, detail |-> "Inactive user", user |-> NoData]
         ELSE [code |-> HTTP_200_OK, detail |-> "",
               user |-> [user EXCEPT !.role = token.payload.role]]

\* get_current_user: [code, detail, user]; user is meaningful only when code = 200
get_current_user(token) ==
    IF token.form = "absent"
    THEN [code |-> HTTP_403_FORBIDDEN, detail |-> "Not authenticated", user |-> NoData]
    ELSE
    LET token_data == decode_token(token) IN
    IF token_data.code # HTTP_200_OK
    THEN [code |-> token_data.code, detail |-> token_data.detail, user |-> NoData]
    ELSE IF UsersById(token_data.user_id) = {}
    THEN [code |-> HTTP_401_UNAUTHORIZED, detail |-> "User not found", user |-> NoData]
    ELSE LET user == CHOOSE u \in UsersById(token_data.user_id) : TRUE IN
         IF ~user.is_active
         THEN [code |-> HTTP_403_FORBIDDEN, detail |-> "Inactive user", user |-> NoData]
         ELSE [code |-> HTTP_200_OK, detail |-> "", user |-> user]

\* a role check that has no admin override
MutCheckUserPermissionNoAdmin(current_user, required_role) ==
    ~(required_role # None /\ current_user.role # required_role)

\* check_user_permission: TRUE when the request may proceed
check_user_permission(current_user, required_role) ==
    ~(required_role # None /\ current_user.role # required_role
                           /\ current_user.role # "admin")

\* the bearer strings a client can put in the Authorization header: none, garbage,
\* a token it was issued, an issued token with an edited payload and the old
\* signature, or a payload signed with a key that is not the server's
Tampered ==
    {[t EXCEPT !.payload.sub = s] : t \in issued, s \in UserIds}
    \cup {[t EXCEPT !.payload.role = "admin"] : t \in {i \in issued : i.payload.role # "admin"}}
    \cup {[t EXCEPT !.payload.exp = timedelta_minutes(MaxTime + TickMinutes)] : t \in issued}
Forged == {jwt_encode(t.payload, ATTACKER_KEY) : t \in issued}
Bearers == {NoToken, Malformed} \cup issued \cup (Tampered \ issued) \cup Forged

\* a response model that serialises the whole row
MutUserResponseWholeRow(u) ==
    [id |-> u.id, email |-> u.email, username |-> u.username, role |-> u.role,
     is_active |-> u.is_active, hashed_password |-> u.hashed_password]

\* UserResponse: the fields of a row that the response model serialises
UserResponse(u) ==
    [id |-> u.id, email |-> u.email, username |-> u.username, role |-> u.role,
     is_active |-> u.is_active]

\* a response: the handler that produced it, the status code, the detail of an
\* HTTPException (or the message of a success), and the serialised body
Reply(op, code, detail, body) ==
    [op |-> op, code |-> code, detail |-> detail, body |-> body]

\* ------------------------------------------------------------------ Init
\* Base.metadata.create_all on an empty database
Init ==
    /\ backend \in Backends
    /\ users = {}
    /\ tasks = {}
    /\ user_id_seq = 0
    /\ task_id_seq = 0
    /\ now = 0
    /\ issued = {}
    /\ pc = [c \in Clients |-> "idle"]
    /\ reg = [c \in Clients |-> NoData]
    /\ resp = NoResp
    /\ svc_users = {}
    /\ svc_uuids = 0
    /\ svc_issued = {}
    /\ svc_resp = [op |-> "none", raised |-> "", message |-> "", body |-> {}]

\* no UserService call is in progress
SvcNoResp == [op |-> "none", raised |-> "", message |-> "", body |-> {}]

Max(S) == IF S = {} THEN 0 ELSE CHOOSE m \in S : \A x \in S : x <= m

\* primary key of the next inserted users row: the sequence's next value on
\* postgresql, largest existing rowid + 1 on sqlite
NextUserId ==
    IF backend = "postgresql" THEN user_id_seq + 1 ELSE Max({u.id : u \in users}) + 1

NextTaskId ==
    IF backend = "postgresql" THEN task_id_seq + 1 ELSE Max({t.id : t \in tasks}) + 1

\* a users table whose username column is not unique
MutUniqueViolationEmailOnly(email, username) ==
    \E u \in users : u.email = email

\* unique=True on users.email and users.username: would inserting this row violate it
UniqueViolation(email, username) ==
    \E u \in users : u.email = email \/ u.username = username

\* ------------------------------------------------------- authentication
\* what every handler does with a failed Depends(get_current_user)
AuthFailure(op, r) == Reply(op, r.code, r.detail, {})

\* an existence check on the email alone
MutExistingUsersEmailOnly(user_data) ==
    {u \in users : u.email = user_data.email}

\* db.query(User).filter((User.email == email) | (User.username == username))
ExistingUsers(user_data) ==
    {u \in users : u.email = user_data.email \/ u.username = user_data.username}

\* register, the existence check: the 400 raised for the row .first() returned
RegisterDuplicate(user_data) ==
    \E existing_user \in ExistingUsers(user_data) :
        resp' = Reply("register", HTTP_400_BAD_REQUEST,
                      IF existing_user.email = user_data.email
                      THEN "Email already registered" ELSE "Username already taken", {})

\* a registration that makes the first account an admin
MutRegisterInsertFirstIsAdmin(user_data) ==
    LET new_user == [id |-> NextUserId, email |-> user_data.email,
                     username |-> user_data.username,
                     hashed_password |-> get_password_hash(user_data.password),
                     role |-> IF users = {} THEN "admin" ELSE "user",
                     is_active |-> TRUE] IN
    /\ IF UniqueViolation(user_data.email, user_data.username)
       THEN /\ users' = users
            /\ resp' = Reply("register", HTTP_500_INTERNAL_SERVER_ERROR,
                             "Internal Server Error", {})
       ELSE /\ users' = users \cup {new_user}
            /\ resp' = Reply("register", HTTP_201_CREATED, "", {UserResponse(new_user)})
    /\ user_id_seq' = IF backend = "postgresql" THEN user_id_seq + 1 ELSE user_id_seq

\* register, db.add(new_user); db.commit(); db.refresh(new_user). A unique
\* violation raises IntegrityError, which nothing catches: the request ends 500
\* and no row is inserted. The postgresql sequence has advanced either way.
RegisterInsert(user_data) ==
    LET new_user == [id |-> NextUserId, email |-> user_data.email,
                     username |-> user_data.username,
                     hashed_password |-> get_password_hash(user_data.password),
                     role |-> "user", is_active |-> TRUE] IN
    /\ IF UniqueViolation(user_data.email, user_data.username)
       THEN /\ users' = users
            /\ resp' = Reply("register", HTTP_500_INTERNAL_SERVER_ERROR,
                             "Internal Server Error", {})
       ELSE /\ users' = users \cup {new_user}
            /\ resp' = Reply("register", HTTP_201_CREATED, "", {UserResponse(new_user)})
    /\ user_id_seq' = IF backend = "postgresql" THEN user_id_seq + 1 ELSE user_id_seq

\* register served without another request in between
register(user_data) ==
    /\ resp = NoResp
    /\ \A c \in Clients : pc[c] = "idle"
    /\ NextUserId <= MaxUserId
    /\ IF ExistingUsers(user_data) # {}
       THEN RegisterDuplicate(user_data) /\ UNCHANGED <<users, user_id_seq>>
       ELSE RegisterInsert(user_data)
    /\ UNCHANGED <<svc_vars, backend, tasks, task_id_seq, now, issued, pc, reg>>

\* register of request c up to the end of its existence check
register_query(c, user_data) ==
    /\ resp = NoResp
    /\ pc[c] = "idle"
    /\ NextUserId + Cardinality({d \in Clients : pc[d] = "commit"}) <= MaxUserId
    /\ IF ExistingUsers(user_data) # {}
       THEN RegisterDuplicate(user_data) /\ UNCHANGED <<pc, reg>>
       ELSE /\ pc' = [pc EXCEPT ![c] = "commit"]
            /\ reg' = [reg EXCEPT ![c] = user_data]
            /\ resp' = resp
    /\ UNCHANGED <<svc_vars, backend, users, tasks, user_id_seq, task_id_seq, now, issued>>

\* register of request c from db.add on
register_commit(c) ==
    /\ resp = NoResp
    /\ pc[c] = "commit"
    /\ RegisterInsert(reg[c])
    /\ pc' = [pc EXCEPT ![c] = "idle"]
    /\ reg' = [reg EXCEPT ![c] = NoData]
    /\ UNCHANGED <<svc_vars, backend, tasks, task_id_seq, now, issued>>

\* a login without the is_active check
MutLoginSkipsActiveCheck(user_credentials) ==
    LET found == {u \in users : u.username = user_credentials.username} IN
    /\ resp = NoResp
    /\ IF \E u \in found :
             verify_password_raises(user_credentials.password, u.hashed_password)
       THEN /\ resp' = Reply("login", HTTP_500_INTERNAL_SERVER_ERROR,
                             "Internal Server Error", {})
            /\ UNCHANGED issued
       ELSE IF found = {} \/ \A u \in found :
                           ~verify_password(user_credentials.password, u.hashed_password)
       THEN /\ resp' = Reply("login", HTTP_401_UNAUTHORIZED,
                             "Incorrect username or password", {})
            /\ UNCHANGED issued
       ELSE LET user == CHOOSE u \in found : TRUE IN
            IF FALSE
            THEN /\ resp' = Reply("login", HTTP_403_FORBIDDEN, "Account is inactive", {})
                 /\ UNCHANGED issued
            ELSE LET access_token ==
                         create_access_token([sub |-> user.id, username |-> user.username,
                                              role |-> user.role],
                                             timedelta_minutes(ACCESS_TOKEN_EXPIRE_MINUTES)) IN
                 /\ access_token \in issued \/ Cardinality(issued) < MaxTokens
                 /\ issued' = issued \cup {access_token}
                 /\ resp' = Reply("login", HTTP_200_OK, "bearer",
                                  {[access_token |-> access_token,
                                    user |-> UserResponse(user)]})
    /\ UNCHANGED <<svc_vars, backend, users, tasks, user_id_seq, task_id_seq, now, pc, reg>>

\* a login that tells an unknown username from a wrong password
MutLoginTellsUnknownUser(user_credentials) ==
    LET found == {u \in users : u.username = user_credentials.username} IN
    /\ resp = NoResp
    /\ IF found = {}
       THEN /\ resp' = Reply("login", HTTP_404_NOT_FOUND, "User not found", {})
            /\ UNCHANGED issued
       ELSE IF \E u \in found :
                  verify_password_raises(user_credentials.password, u.hashed_password)
       THEN /\ resp' = Reply("login", HTTP_500_INTERNAL_SERVER_ERROR,
                             "Internal Server Error", {})
            /\ UNCHANGED issued
       ELSE IF \A u \in found :
                  ~verify_password(user_credentials.password, u.hashed_password)
       THEN /\ resp' = Reply("login", HTTP_401_UNAUTHORIZED,
                             "Incorrect username or password", {})
            /\ UNCHANGED issued
       ELSE LET user == CHOOSE u \in found : TRUE IN
            IF ~user.is_active
            THEN /\ resp' = Reply("login", HTTP_403_FORBIDDEN, "Account is inactive", {})
                 /\ UNCHANGED issued
            ELSE LET access_token ==
                         create_access_token([sub |-> user.id, username |-> user.username,
                                              role |-> user.role],
                                             timedelta_minutes(ACCESS_TOKEN_EXPIRE_MINUTES)) IN
                 /\ access_token \in issued \/ Cardinality(issued) < MaxTokens
                 /\ issued' = issued \cup {access_token}
                 /\ resp' = Reply("login", HTTP_200_OK, "bearer",
                                  {[access_token |-> access_token,
                                    user |-> UserResponse(user)]})
    /\ UNCHANGED <<svc_vars, backend, users, tasks, user_id_seq, task_id_seq, now, pc, reg>>

\* login: the row with the username, the password check, the active check, the token
login(user_credentials) ==
    LET found == {u \in users : u.username = user_credentials.username} IN
    /\ resp = NoResp
    /\ IF \E u \in found :
             verify_password_raises(user_credentials.password, u.hashed_password)
       THEN /\ resp' = Reply("login", HTTP_500_INTERNAL_SERVER_ERROR,
                             "Internal Server Error", {})
            /\ UNCHANGED issued
       ELSE IF found = {} \/ \A u \in found :
                           ~verify_password(user_credentials.password, u.hashed_password)
       THEN /\ resp' = Reply("login", HTTP_401_UNAUTHORIZED,
                             "Incorrect username or password", {})
            /\ UNCHANGED issued
       ELSE LET user == CHOOSE u \in found : TRUE IN
            IF ~user.is_active
            THEN /\ resp' = Reply("login", HTTP_403_FORBIDDEN, "Account is inactive", {})
                 /\ UNCHANGED issued
            ELSE LET access_token ==
                         create_access_token([sub |-> user.id, username |-> user.username,
                                              role |-> user.role],
                                             timedelta_minutes(ACCESS_TOKEN_EXPIRE_MINUTES)) IN
                 /\ access_token \in issued \/ Cardinality(issued) < MaxTokens
                 /\ issued' = issued \cup {access_token}
                 /\ resp' = Reply("login", HTTP_200_OK, "bearer",
                                  {[access_token |-> access_token,
                                    user |-> UserResponse(user)]})
    /\ UNCHANGED <<svc_vars, backend, users, tasks, user_id_seq, task_id_seq, now, pc, reg>>

logout(token) ==
    /\ resp = NoResp
    /\ LET r == get_current_user(token) IN
       resp' = IF r.code # HTTP_200_OK THEN AuthFailure("logout", r)
               ELSE Reply("logout", HTTP_200_OK, "Successfully logged out", {})
    /\ UNCHANGED <<svc_vars, backend, users, tasks, user_id_seq, task_id_seq, now, issued, pc, reg>>

verify(token) ==
    /\ resp = NoResp
    /\ LET r == get_current_user(token) IN
       resp' = IF r.code # HTTP_200_OK THEN AuthFailure("verify", r)
               ELSE Reply("verify", HTTP_200_OK, "", {UserResponse(r.user)})
    /\ UNCHANGED <<svc_vars, backend, users, tasks, user_id_seq, task_id_seq, now, issued, pc, reg>>

get_current_user_info(token) ==
    /\ resp = NoResp
    /\ LET r == get_current_user(token) IN
       resp' = IF r.code # HTTP_200_OK THEN AuthFailure("me", r)
               ELSE Reply("me", HTTP_200_OK, "", {UserResponse(r.user)})
    /\ UNCHANGED <<svc_vars, backend, users, tasks, user_id_seq, task_id_seq, now, issued, pc, reg>>

\* ------------------------------------------------------------------ tasks
\* db.query(Task).filter(Task.id == task_id, Task.owner_id == current_user.id)
OwnedTask(task_id, current_user) ==
    {t \in tasks : t.id = task_id /\ t.owner_id = current_user.id}

TaskNotFound(op) == Reply(op, HTTP_404_NOT_FOUND, "Task not found", {})

\* a create_task without Depends(get_current_user): the owner is read from the
\* bearer string unverified
MutCreateTaskUnprotected(token, max_task_id) ==
    /\ resp = NoResp
    /\ IF token.form # "jwt"
       THEN /\ resp' = Reply("create_task", HTTP_401_UNAUTHORIZED,
                             "Could not validate credentials", {})
            /\ UNCHANGED <<tasks, task_id_seq>>
       ELSE LET new_task == [id |-> NextTaskId, status |-> "pending", completed |-> FALSE,
                             owner_id |-> token.payload.sub, updated_at |-> now] IN
            /\ NextTaskId <= max_task_id
            /\ tasks' = tasks \cup {new_task}
            /\ task_id_seq' = IF backend = "postgresql" THEN task_id_seq + 1
                              ELSE task_id_seq
            /\ resp' = Reply("create_task", HTTP_201_CREATED, "", {new_task})
    /\ UNCHANGED <<svc_vars, backend, users, user_id_seq, now, issued, pc, reg>>

\* create_task, in a table with room for ids up to max_task_id
create_task_upto(token, max_task_id) ==
    /\ resp = NoResp
    /\ LET r == get_current_user(token) IN
       IF r.code # HTTP_200_OK
       THEN /\ resp' = AuthFailure("create_task", r)
            /\ UNCHANGED <<tasks, task_id_seq>>
       ELSE LET new_task == [id |-> NextTaskId, status |-> "pending", completed |-> FALSE,
                             owner_id |-> r.user.id, updated_at |-> now] IN
            /\ NextTaskId <= max_task_id
            /\ tasks' = tasks \cup {new_task}
            /\ task_id_seq' = IF backend = "postgresql" THEN task_id_seq + 1
                              ELSE task_id_seq
            /\ resp' = Reply("create_task", HTTP_201_CREATED, "", {new_task})
    /\ UNCHANGED <<svc_vars, backend, users, user_id_seq, now, issued, pc, reg>>

create_task(token) == create_task_upto(token, MaxTaskId)

\* query.order_by(Task.created_at.desc()).offset(skip).limit(limit): rows are
\* created in id order, so the page is the rows with skip..skip+limit-1 newer rows
Page(rows, skip, limit) ==
    IF skip = 0 /\ Cardinality(rows) <= limit THEN rows
    ELSE {t \in rows : LET newer == Cardinality({x \in rows : x.id > t.id}) IN
                       skip <= newer /\ newer < skip + limit}

\* a listing of every owner's tasks
MutGetTasksAllOwners(token, status, completed, skip, limit) ==
    /\ resp = NoResp
    /\ LET r == get_current_user(token) IN
       resp' = IF r.code # HTTP_200_OK THEN AuthFailure("get_tasks", r)
               ELSE Reply("get_tasks", HTTP_200_OK, "",
                          Page({t \in tasks : /\ t.status \in status
                                              /\ t.completed \in completed},
                               skip, limit))
    /\ UNCHANGED <<svc_vars, backend, users, tasks, user_id_seq, task_id_seq, now, issued, pc, reg>>

\* get_tasks: status and completed are the sets of values the filters let through
\* (all values when the query parameter is absent)
get_tasks(token, status, completed, skip, limit) ==
    /\ resp = NoResp
    /\ LET r == get_current_user(token) IN
       resp' = IF r.code # HTTP_200_OK THEN AuthFailure("get_tasks", r)
               ELSE Reply("get_tasks", HTTP_200_OK, "",
                          Page({t \in tasks : /\ t.owner_id = r.user.id
                                              /\ t.status \in status
                                              /\ t.completed \in completed},
                               skip, limit))
    /\ UNCHANGED <<svc_vars, backend, users, tasks, user_id_seq, task_id_seq, now, issued, pc, reg>>

get_task(token, task_id) ==
    /\ resp = NoResp
    /\ LET r == get_current_user(token) IN
       resp' = IF r.code # HTTP_200_OK THEN AuthFailure("get_task", r)
               ELSE IF OwnedTask(task_id, r.user) = {} THEN TaskNotFound("get_task")
               ELSE Reply("get_task", HTTP_200_OK, "", OwnedTask(task_id, r.user))
    /\ UNCHANGED <<svc_vars, backend, users, tasks, user_id_seq, task_id_seq, now, issued, pc, reg>>

\* TaskUpdate payloads: the fields set in the request (exclude_unset) and their values
TaskUpdates ==
    {[fields |-> f, status |-> "in_progress", completed |-> TRUE] :
        f \in SUBSET {"status", "completed"}}

update_task(token, task_id, task_data) ==
    /\ resp = NoResp
    /\ LET r == get_current_user(token) IN
       IF r.code # HTTP_200_OK
       THEN resp' = AuthFailure("update_task", r) /\ UNCHANGED tasks
       ELSE IF OwnedTask(task_id, r.user) = {}
       THEN resp' = TaskNotFound("update_task") /\ UNCHANGED tasks
       ELSE LET task == CHOOSE t \in OwnedTask(task_id, r.user) : TRUE
                updated == [task EXCEPT
                    !.status = IF "status" \in task_data.fields
                               THEN task_data.status ELSE @,
                    !.completed = IF "completed" \in task_data.fields
                                  THEN task_data.completed ELSE @,
                    !.updated_at = now] IN
            /\ tasks' = (tasks \ {task}) \cup {updated}
            /\ resp' = Reply("update_task", HTTP_200_OK, "", {updated})
    /\ UNCHANGED <<svc_vars, backend, users, user_id_seq, task_id_seq, now, issued, pc, reg>>

complete_task(token, task_id) ==
    /\ resp = NoResp
    /\ LET r == get_current_user(token) IN
       IF r.code # HTTP_200_OK
       THEN resp' = AuthFailure("complete_task", r) /\ UNCHANGED tasks
       ELSE IF OwnedTask(task_id, r.user) = {}
       THEN resp' = TaskNotFound("complete_task") /\ UNCHANGED tasks
       ELSE LET task == CHOOSE t \in OwnedTask(task_id, r.user) : TRUE
                updated == [task EXCEPT !.status = "completed", !.completed = TRUE,
                                        !.updated_at = now] IN
            /\ tasks' = (tasks \ {task}) \cup {updated}
            /\ resp' = Reply("complete_task", HTTP_200_OK, "", {updated})
    /\ UNCHANGED <<svc_vars, backend, users, user_id_seq, task_id_seq, now, issued, pc, reg>>

delete_task(token, task_id) ==
    /\ resp = NoResp
    /\ LET r == get_current_user(token) IN
       IF r.code # HTTP_200_OK
       THEN resp' = AuthFailure("delete_task", r) /\ UNCHANGED tasks
       ELSE IF OwnedTask(task_id, r.user) = {}
       THEN resp' = TaskNotFound("delete_task") /\ UNCHANGED tasks
       ELSE /\ tasks' = tasks \ OwnedTask(task_id, r.user)
            /\ resp' = Reply("delete_task", HTTP_204_NO_CONTENT, "", {})
    /\ UNCHANGED <<svc_vars, backend, users, user_id_seq, task_id_seq, now, issued, pc, reg>>

\* ------------------------------------------------------------------ admin
Insufficient(op) == Reply(op, HTTP_403_FORBIDDEN, "Insufficient permissions", {})

get_all_users(token) ==
    /\ resp = NoResp
    /\ LET r == get_current_user(token) IN
       resp' = IF r.code # HTTP_200_OK THEN AuthFailure("get_all_users", r)
               ELSE IF ~check_user_permission(r.user, "admin")
               THEN Insufficient("get_all_users")
               ELSE Reply("get_all_users", HTTP_200_OK, "",
                          {UserResponse(u) : u \in users})
    /\ UNCHANGED <<svc_vars, backend, users, tasks, user_id_seq, task_id_seq, now, issued, pc, reg>>

\* a delete_user without the check for the caller's own id
MutDeleteUserAllowsSelf(token, user_id) ==
    /\ resp = NoResp
    /\ LET r == get_current_user(token) IN
       IF r.code # HTTP_200_OK
       THEN resp' = AuthFailure("delete_user", r) /\ UNCHANGED <<users, tasks>>
       ELSE IF ~check_user_permission(r.user, "admin")
       THEN resp' = Insufficient("delete_user") /\ UNCHANGED <<users, tasks>>
       ELSE IF FALSE
       THEN /\ resp' = Reply("delete_user", HTTP_400_BAD_REQUEST,
                             "Cannot delete your own account", {})
            /\ UNCHANGED <<users, tasks>>
       ELSE IF UsersById(user_id) = {}
       THEN /\ resp' = Reply("delete_user", HTTP_404_NOT_FOUND, "User not found", {})
            /\ UNCHANGED <<users, tasks>>
       ELSE /\ users' = users \ UsersById(user_id)
            /\ tasks' = {t \in tasks : t.owner_id # user_id}
            /\ resp' = Reply("delete_user", HTTP_204_NO_CONTENT, "", {})
    /\ UNCHANGED <<svc_vars, backend, user_id_seq, task_id_seq, now, issued, pc, reg>>

\* a users table whose tasks relationship does not cascade
MutDeleteUserNoCascade(token, user_id) ==
    /\ resp = NoResp
    /\ LET r == get_current_user(token) IN
       IF r.code # HTTP_200_OK
       THEN resp' = AuthFailure("delete_user", r) /\ UNCHANGED <<users, tasks>>
       ELSE IF ~check_user_permission(r.user, "admin")
       THEN resp' = Insufficient("delete_user") /\ UNCHANGED <<users, tasks>>
       ELSE IF user_id = r.user.id
       THEN /\ resp' = Reply("delete_user", HTTP_400_BAD_REQUEST,
                             "Cannot delete your own account", {})
            /\ UNCHANGED <<users, tasks>>
       ELSE IF UsersById(user_id) = {}
       THEN /\ resp' = Reply("delete_user", HTTP_404_NOT_FOUND, "User not found", {})
            /\ UNCHANGED <<users, tasks>>
       ELSE /\ users' = users \ UsersById(user_id)
            /\ tasks' = tasks
            /\ resp' = Reply("delete_user", HTTP_204_NO_CONTENT, "", {})
    /\ UNCHANGED <<svc_vars, backend, user_id_seq, task_id_seq, now, issued, pc, reg>>

\* db.delete(user) cascades to the user's tasks (cascade="all, delete-orphan")
delete_user(token, user_id) ==
    /\ resp = NoResp
    /\ LET r == get_current_user(token) IN
       IF r.code # HTTP_200_OK
       THEN resp' = AuthFailure("delete_user", r) /\ UNCHANGED <<users, tasks>>
       ELSE IF ~check_user_permission(r.user, "admin")
       THEN resp' = Insufficient("delete_user") /\ UNCHANGED <<users, tasks>>
       ELSE IF user_id = r.user.id
       THEN /\ resp' = Reply("delete_user", HTTP_400_BAD_REQUEST,
                             "Cannot delete your own account", {})
            /\ UNCHANGED <<users, tasks>>
       ELSE IF UsersById(user_id) = {}
       THEN /\ resp' = Reply("delete_user", HTTP_404_NOT_FOUND, "User not found", {})
            /\ UNCHANGED <<users, tasks>>
       ELSE /\ users' = users \ UsersById(user_id)
            /\ tasks' = {t \in tasks : t.owner_id # user_id}
            /\ resp' = Reply("delete_user", HTTP_204_NO_CONTENT, "", {})
    /\ UNCHANGED <<svc_vars, backend, user_id_seq, task_id_seq, now, issued, pc, reg>>

get_all_tasks(token) ==
    /\ resp = NoResp
    /\ LET r == get_current_user(token) IN
       resp' = IF r.code # HTTP_200_OK THEN AuthFailure("get_all_tasks", r)
               ELSE IF ~check_user_permission(r.user, "admin")
               THEN Insufficient("get_all_tasks")
               ELSE Reply("get_all_tasks", HTTP_200_OK, "", tasks)
    /\ UNCHANGED <<svc_vars, backend, users, tasks, user_id_seq, task_id_seq, now, issued, pc, reg>>

\* ------------------------------------------------------------ environment
\* the application returns the handler's result or its HTTPException to the client
send_response ==
    /\ resp # NoResp
    /\ resp' = NoResp
    /\ UNCHANGED <<svc_vars, backend, users, tasks, user_id_seq, task_id_seq, now, issued, pc, reg>>

\* the wall clock read by utcnow() and by jwt.decode
Tick ==
    /\ resp = NoResp
    /\ svc_resp = SvcNoResp
    /\ now + timedelta_minutes(TickMinutes) <= timedelta_minutes(MaxTime)
    /\ now' = now + timedelta_minutes(TickMinutes)
    /\ UNCHANGED <<svc_vars, backend, users, tasks, user_id_seq, task_id_seq, issued, pc, reg, resp>>

\* users.role and users.is_active are columns no handler writes after the insert:
\* an operator changes them in the database directly
db_set_role(user_id, role) ==
    /\ resp = NoResp
    /\ \E u \in users :
          /\ u.id = user_id
          /\ u.role # role
          /\ users' = (users \ {u}) \cup {[u EXCEPT !.role = role]}
    /\ UNCHANGED <<svc_vars, backend, tasks, user_id_seq, task_id_seq, now, issued, pc, reg, resp>>

\* the hashed_password column of a row, written in the database directly
db_set_hashed_password(user_id, hashed_password) ==
    /\ resp = NoResp
    /\ \E u \in users :
          /\ u.id = user_id
          /\ u.hashed_password # hashed_password
          /\ users' = (users \ {u}) \cup {[u EXCEPT !.hashed_password = hashed_password]}
    /\ UNCHANGED <<svc_vars, backend, tasks, user_id_seq, task_id_seq, now, issued, pc, reg, resp>>

db_set_is_active(user_id, is_active) ==
    /\ resp = NoResp
    /\ \E u \in users :
          /\ u.id = user_id
          /\ u.is_active # is_active
          /\ users' = (users \ {u}) \cup {[u EXCEPT !.is_active = is_active]}
    /\ UNCHANGED <<svc_vars, backend, tasks, user_id_seq, task_id_seq, now, issued, pc, reg, resp>>

\* ------------------------------------------------------------ token codec, called directly
\* the claim sets create_access_token is given
ClaimSets ==
    {[sub |-> 1, username |-> "alice", role |-> "user"],
     [sub |-> 2, username |-> "bob", role |-> "admin"],
     [sub |-> 2, username |-> "bob", role |-> "guest"]}

\* the expires_delta values it is given: a fraction of a second, one second, the
\* configured lifetime
Deltas ==
    {1, timedelta_seconds(1), timedelta_minutes(ACCESS_TOKEN_EXPIRE_MINUTES)}

\* TokenData(user_id=..., username=..., role=...)
TokenData(token_data) ==
    [user_id |-> token_data.user_id, username |-> token_data.username,
     role |-> token_data.role]

\* what decode_token returns or raises for a bearer string, as a response
DecodeReply(token) ==
    LET token_data == decode_token(token) IN
    IF token_data.code # HTTP_200_OK
    THEN Reply("decode_token", token_data.code, token_data.detail, {})
    ELSE Reply("decode_token", HTTP_200_OK, "", {TokenData(token_data)})

\* decode_token(create_access_token(data, expires_delta))
issue_then_decode(data, expires_delta) ==
    /\ resp = NoResp
    /\ LET access_token == create_access_token(data, expires_delta) IN
       /\ access_token \in issued \/ Cardinality(issued) < MaxTokens
       /\ issued' = issued \cup {access_token}
       /\ resp' = DecodeReply(access_token)
    /\ UNCHANGED <<svc_vars, backend, users, tasks, user_id_seq, task_id_seq, now, pc, reg>>

\* decode_token(token) at a later time
decode(token) ==
    /\ resp = NoResp
    /\ resp' = DecodeReply(token)
    /\ UNCHANGED <<svc_vars, backend, users, tasks, user_id_seq, task_id_seq, now, issued, pc, reg>>

\* the wall clock, one tick at a time
Tock ==
    /\ resp = NoResp
    /\ svc_resp = SvcNoResp
    /\ now % timedelta_minutes(TickMinutes) < MaxTocks
    /\ now' = now + 1
    /\ UNCHANGED <<svc_vars, backend, users, tasks, user_id_seq, task_id_seq, issued, pc, reg, resp>>

\* the bearer strings that differ from token in one character: a digit of sub or
\* of exp in the payload segment, a character of the signature segment that
\* changes the bytes it encodes, the signature segment cut by its last character,
\* the last character of the signature segment changed in its spare bits only,
\* and a character of the header or a separator
OneByteOff(token) ==
    {[token EXCEPT !.payload.sub = s] : s \in UserIds \ {token.payload.sub}}
    \cup {[token EXCEPT !.payload.exp = token.payload.exp + timedelta_seconds(1)]}
    \cup {[token EXCEPT !.sig = <<token.payload, "another-digest">>]}
    \cup {[token EXCEPT !.sig = <<token.payload>>]}
    \cup {[token EXCEPT !.slack = b] : b \in 1..3}
    \cup {[token EXCEPT !.form = "garbage"]}

\* ------------------------------------------------------------ UserService
\* core.config.settings, supplied by the environment
settings_SECRET_KEY == "service-secret"
settings_ACCESS_TOKEN_EXPIRE_MINUTES == 30

\* str(user.id) and UUID(user_id_str): the text form of a uuid and its parse,
\* which raises ValueError (here 0) on any other text
str_uuid(n) == <<"urn:uuid", n>>
UUID(text) == IF text[1] = "urn:uuid" THEN text[2] ELSE 0

SvcReturn(op, body) == [op |-> op, raised |-> "", message |-> "", body |-> body]
SvcRaise(op, exception, message) ==
    [op |-> op, raised |-> exception, message |-> message, body |-> {}]

\* UserService.create_access_token with the default expiry: exp and iat are added
UserService_create_access_token(data) ==
    LET payload == [sub |-> data.sub, email |-> data.email,
                    exp |-> timegm(now + timedelta_minutes(
                                        settings_ACCESS_TOKEN_EXPIRE_MINUTES)),
                    iat |-> timegm(now)] IN
    [form |-> "jwt", payload |-> payload, sig |-> HS256(payload, settings_SECRET_KEY)]

\* jose.jwt.decode: the JWTError it raises, or "ok"; the clock is read as
\* timegm(utcnow()) and a token is expired once exp < now
jose_decode(token) ==
    IF token.form # "jwt" THEN "JWTError"
    ELSE IF token.sig # HS256(token.payload, settings_SECRET_KEY) THEN "JWTError"
    ELSE IF token.payload.exp < timegm(now) THEN "ExpiredSignatureError"
    ELSE "ok"

\* UserService.verify_token: TRUE when the payload is returned
UserService_verify_token(token) == jose_decode(token) = "ok"

\* UserService.read: the rows with this id
UserService_read(user_id) == {u \in svc_users : u.id = user_id}

\* UserService.get_by_email
UserService_get_by_email(email) == {u \in svc_users : u.email = email}

\* the unique constraints of the users table: would a row with this email and
\* name, other than row user_id, violate them
SvcUniqueViolation(user_id, email, name) ==
    \E u \in svc_users : u.id # user_id /\ (u.email = email \/ u.name = name)

SvcNoPayload == [sub |-> str_uuid(0), email |-> "", exp |-> 0, iat |-> 0]
SvcMalformed == [form |-> "garbage", payload |-> SvcNoPayload, sig |-> <<SvcNoPayload, "">>]
SvcBearers ==
    {SvcMalformed} \cup svc_issued
    \cup {[t EXCEPT !.payload.exp = timedelta_minutes(MaxTime + TickMinutes)] : t \in svc_issued}
    \cup {[t EXCEPT !.sig = HS256(t.payload, ATTACKER_KEY)] : t \in svc_issued}

\* UserService.register: create, then a token for the new row
UserService_register(user_data) ==
    /\ svc_resp = SvcNoResp
    /\ svc_uuids < MaxUserId
    /\ LET db_user == [id |-> svc_uuids + 1, email |-> user_data.email,
                       name |-> user_data.username,
                       password_hash |-> get_password_hash(user_data.password),
                       is_active |-> TRUE, updated_at |-> now]
           access_token == UserService_create_access_token(
                               [sub |-> str_uuid(db_user.id), email |-> db_user.email]) IN
       IF UserService_get_by_email(user_data.email) # {}
       THEN /\ svc_resp' = SvcRaise("register", "UserAlreadyExistsException",
                                    "User with email already exists")
            /\ UNCHANGED <<svc_users, svc_uuids, svc_issued>>
       ELSE IF SvcUniqueViolation(db_user.id, db_user.email, db_user.name)
       THEN /\ svc_resp' = SvcRaise("register", "UserAlreadyExistsException",
                                    "User with email already exists")
            /\ svc_uuids' = svc_uuids + 1
            /\ UNCHANGED <<svc_users, svc_issued>>
       ELSE /\ access_token \in svc_issued \/ Cardinality(svc_issued) < MaxTokens
            /\ svc_users' = svc_users \cup {db_user}
            /\ svc_uuids' = svc_uuids + 1
            /\ svc_issued' = svc_issued \cup {access_token}
            /\ svc_resp' = SvcReturn("register", {db_user.id})
    /\ UNCHANGED <<main_vars, now>>

UserService_login(email, password) ==
    /\ svc_resp = SvcNoResp
    /\ IF UserService_get_by_email(email) = {}
       THEN /\ svc_resp' = SvcRaise("login", "InvalidCredentialsException",
                                    "Invalid email or password")
            /\ UNCHANGED svc_issued
       ELSE LET user == CHOOSE u \in UserService_get_by_email(email) : TRUE
                access_token == UserService_create_access_token(
                                    [sub |-> str_uuid(user.id), email |-> user.email]) IN
            IF verify_password_raises(password, user.password_hash)
            THEN /\ svc_resp' = SvcRaise("login",
                                         pwd_context_verify(password, user.password_hash),
                                         "hash could not be identified")
                 /\ UNCHANGED svc_issued
            ELSE IF ~verify_password(password, user.password_hash)
            THEN /\ svc_resp' = SvcRaise("login", "InvalidCredentialsException",
                                         "Invalid email or password")
                 /\ UNCHANGED svc_issued
            ELSE /\ access_token \in svc_issued \/ Cardinality(svc_issued) < MaxTokens
                 /\ svc_issued' = svc_issued \cup {access_token}
                 /\ svc_resp' = SvcReturn("login", {user.id})
    /\ UNCHANGED <<main_vars, now, svc_users, svc_uuids>>

\* UserService.verify: what it returns or raises for a token
VerifyResult(token) ==
    IF ~UserService_verify_token(token)
    THEN SvcRaise("verify", "UnauthorizedException", "Invalid or expired token")
    ELSE IF UUID(token.payload.sub) = 0
    THEN SvcRaise("verify", "UnauthorizedException", "Invalid user ID in token")
    ELSE IF UserService_read(UUID(token.payload.sub)) = {}
    THEN SvcRaise("verify", "UserNotFoundException", "User not found")
    ELSE SvcReturn("verify", UserService_read(UUID(token.payload.sub)))

UserService_verify(token) ==
    /\ svc_resp = SvcNoResp
    /\ svc_resp' = VerifyResult(token)
    /\ UNCHANGED <<main_vars, now, svc_users, svc_uuids, svc_issued>>

\* UserUpdate payloads: a field the request leaves out is None (NoPassword for
\* the password)
UserUpdates ==
    [email : {None, Alice.email, Bob.email}, name : {None, Bob.username},
     password : {NoPassword, WrongPassword}]

\* an update that leaves updated_at as it was
MutUserServiceUpdateKeepsTimestamp(user_id, user_data) ==
    /\ svc_resp = SvcNoResp
    /\ IF UserService_read(user_id) = {}
       THEN /\ svc_resp' = SvcRaise("update", "UserNotFoundException", "User not found")
            /\ UNCHANGED svc_users
       ELSE LET user == CHOOSE u \in UserService_read(user_id) : TRUE
                updated == [user EXCEPT
                    !.email = IF user_data.email # None THEN user_data.email ELSE @,
                    !.name = IF user_data.name # None THEN user_data.name ELSE @,
                    !.password_hash = IF user_data.password # NoPassword
                                      THEN get_password_hash(user_data.password)
                                      ELSE @] IN
            IF /\ user_data.email # None
               /\ \E u \in svc_users : u.email = user_data.email /\ u.id # user_id
            THEN /\ svc_resp' = SvcRaise("update", "UserAlreadyExistsException",
                                         "Email is already taken")
                 /\ UNCHANGED svc_users
            ELSE IF SvcUniqueViolation(user_id, updated.email, updated.name)
            THEN /\ svc_resp' = SvcRaise("update", "UserAlreadyExistsException",
                                         "Email already exists")
                 /\ UNCHANGED svc_users
            ELSE /\ svc_users' = (svc_users \ {user}) \cup {updated}
                 /\ svc_resp' = SvcReturn("update", {updated.id})
    /\ UNCHANGED <<main_vars, now, svc_uuids, svc_issued>>

\* UserService.update: the fields that are not None, then updated_at, then the commit
UserService_update(user_id, user_data) ==
    /\ svc_resp = SvcNoResp
    /\ IF UserService_read(user_id) = {}
       THEN /\ svc_resp' = SvcRaise("update", "UserNotFoundException", "User not found")
            /\ UNCHANGED svc_users
       ELSE LET user == CHOOSE u \in UserService_read(user_id) : TRUE
                updated == [user EXCEPT
                    !.email = IF user_data.email # None THEN user_data.email ELSE @,
                    !.name = IF user_data.name # None THEN user_data.name ELSE @,
                    !.password_hash = IF user_data.password # NoPassword
                                      THEN get_password_hash(user_data.password)
                                      ELSE @,
                    !.updated_at = now] IN
            IF /\ user_data.email # None
               /\ \E u \in svc_users : u.email = user_data.email /\ u.id # user_id
            THEN /\ svc_resp' = SvcRaise("update", "UserAlreadyExistsException",
                                         "Email is already taken")
                 /\ UNCHANGED svc_users
            ELSE IF SvcUniqueViolation(user_id, updated.email, updated.name)
            THEN /\ svc_resp' = SvcRaise("update", "UserAlreadyExistsException",
                                         "Email already exists")
                 /\ UNCHANGED svc_users
            ELSE /\ svc_users' = (svc_users \ {user}) \cup {updated}
                 /\ svc_resp' = SvcReturn("update", {updated.id})
    /\ UNCHANGED <<main_vars, now, svc_uuids, svc_issued>>

UserService_delete(user_id) ==
    /\ svc_resp = SvcNoResp
    /\ IF UserService_read(user_id) = {}
       THEN /\ svc_resp' = SvcRaise("delete", "UserNotFoundException", "User not found")
            /\ UNCHANGED svc_users
       ELSE /\ svc_users' = svc_users \ UserService_read(user_id)
            /\ svc_resp' = SvcReturn("delete", {})
    /\ UNCHANGED <<main_vars, now, svc_uuids, svc_issued>>

UserService_logout(user_id) ==
    /\ svc_resp = SvcNoResp
    /\ svc_resp' = IF UserService_read(user_id) = {}
                   THEN SvcRaise("logout", "UserNotFoundException", "User not found")
                   ELSE SvcReturn("logout", {})
    /\ UNCHANGED <<main_vars, now, svc_users, svc_uuids, svc_issued>>

\* the caller takes the result or the exception
svc_return ==
    /\ svc_resp # SvcNoResp
    /\ svc_resp' = SvcNoResp
    /\ UNCHANGED <<main_vars, now, svc_users, svc_uuids, svc_issued>>

\* the is_active column of a credential record, written in the database directly
svc_db_set_is_active(user_id, is_active) ==
    /\ svc_resp = SvcNoResp
    /\ \E u \in svc_users :
          /\ u.id = user_id
          /\ u.is_active # is_active
          /\ svc_users' = (svc_users \ {u}) \cup {[u EXCEPT !.is_active = is_active]}
    /\ UNCHANGED <<main_vars, now, svc_uuids, svc_issued, svc_resp>>

\* ------------------------------------------------------------------ Next
UserLogin(people) ==
    [username : {p.username : p \in people},
     password : {p.password : p \in people} \cup {WrongPassword}]

\* identity resolution: accounts, tokens, the clock, role and activity changes
AuthNext ==
    \/ \E user_data \in {Alice, Bob} : register(user_data)
    \/ \E user_credentials \in UserLogin({Alice, Bob}) : login(user_credentials)
    \/ \E token \in Bearers : logout(token)
    \/ \E token \in Bearers : verify(token)
    \/ \E token \in Bearers : get_current_user_info(token)
    \/ \E token \in Bearers : get_all_users(token)
    \/ \E token \in Bearers, user_id \in UserIds : delete_user(token, user_id)
    \/ send_response
    \/ Tick
    \/ \E user_id \in UserIds, role \in {"admin", "user"} : db_set_role(user_id, role)
    \/ \E user_id \in UserIds, is_active \in BOOLEAN : db_set_is_active(user_id, is_active)

AuthSpec == Init /\ [][AuthNext]_vars

\* account lifecycle: three people registering, logging in and being deleted
AccountNext ==
    \/ \E user_data \in {Alice, Bob, Carol} : register(user_data)
    \/ \E user_credentials \in UserLogin({Alice, Bob, Carol}) : login(user_credentials)
    \/ \E token \in Bearers : get_current_user_info(token)
    \/ \E token \in Bearers, user_id \in UserIds : delete_user(token, user_id)
    \/ send_response
    \/ \E user_id \in UserIds : db_set_role(user_id, "admin")

AccountSpec == Init /\ [][AccountNext]_vars

\* tasks and their owners
TaskNext ==
    \/ \E user_data \in {Alice, Bob} : register(user_data)
    \/ \E user_credentials \in UserLogin({Alice, Bob}) : login(user_credentials)
    \/ \E token \in Bearers : create_task(token)
    \/ \E token \in Bearers : get_tasks(token, TaskStatus, BOOLEAN, 0, DEFAULT_LIMIT)
    \/ \E token \in Bearers, task_id \in TaskIds : get_task(token, task_id)
    \/ \E token \in Bearers, task_id \in TaskIds, task_data \in TaskUpdates :
          update_task(token, task_id, task_data)
    \/ \E token \in Bearers, task_id \in TaskIds : complete_task(token, task_id)
    \/ \E token \in Bearers, task_id \in TaskIds : delete_task(token, task_id)
    \/ \E token \in Bearers : get_all_tasks(token)
    \/ send_response
    \/ \E user_id \in UserIds : db_set_role(user_id, "admin")

TaskSpec == Init /\ [][TaskNext]_vars

\* concurrent registrations: the existence check and the insert of one request
\* interleave with those of another
RaceNext ==
    \/ \E c \in Clients, user_data \in Colliding : register_query(c, user_data)
    \/ \E c \in Clients : register_commit(c)
    \/ \E user_credentials \in UserLogin({Alice, Bob}) : login(user_credentials)
    \/ \E token \in Bearers, user_id \in UserIds : delete_user(token, user_id)
    \/ send_response
    \/ \E user_id \in UserIds : db_set_role(user_id, "admin")

RaceSpec == Init /\ [][RaceNext]_vars

\* role-based access: the admin-only listing under role and activity changes
RoleNext ==
    \/ \E user_data \in {Alice, Bob} : register(user_data)
    \/ \E user_credentials \in UserLogin({Alice, Bob}) : login(user_credentials)
    \/ \E token \in Bearers : get_all_users(token)
    \/ send_response
    \/ Tick
    \/ \E user_id \in UserIds, role \in {"admin", "user"} : db_set_role(user_id, role)
    \/ \E user_id \in UserIds, is_active \in BOOLEAN : db_set_is_active(user_id, is_active)

RoleSpec == Init /\ [][RoleNext]_vars

\* the token codec as a function of the claim set, the lifetime and the clock
CodecNext ==
    \/ \E data \in ClaimSets, expires_delta \in Deltas : issue_then_decode(data, expires_delta)
    \/ \E token \in issued : decode(token)
    \/ send_response
    \/ Tick
    \/ Tock

CodecSpec == Init /\ [][CodecNext]_vars

\* bearer strings one character away from an issued token
TamperNext ==
    \/ \E user_data \in {Alice, Bob} : register(user_data)
    \/ \E user_credentials \in UserLogin({Alice, Bob}) : login(user_credentials)
    \/ \E t \in issued : \E token \in {t} \cup OneByteOff(t) : get_current_user_info(token)
    \/ send_response
    \/ Tick

TamperSpec == Init /\ [][TamperNext]_vars

\* the admin-only routes under every role, called with the tokens login issued
AdminNext ==
    \/ \E user_data \in {Alice, Bob} : register(user_data)
    \/ \E user_credentials \in UserLogin({Alice, Bob}) : login(user_credentials)
    \/ \E token \in issued : get_all_users(token)
    \/ \E token \in issued, user_id \in UserIds : delete_user(token, user_id)
    \/ \E token \in issued : get_all_tasks(token)
    \/ send_response
    \/ \E user_id \in UserIds, role \in UserRole : db_set_role(user_id, role)

AdminSpec == Init /\ [][AdminNext]_vars

\* the passwords a client may type
Passwords == {Secret, WrongPassword, LongPassword, LongPasswordTwin}

\* credentials: registration, login with any password, and the routes that return
\* the user
PasswordNext ==
    \/ \E user_data \in {Alice, Dave} : register(user_data)
    \/ \E user_credentials \in [username : {Alice.username, Dave.username},
                                password : Passwords] : login(user_credentials)
    \/ \E token \in issued : verify(token)
    \/ \E token \in issued : get_current_user_info(token)
    \/ send_response
    \/ \E user_id \in UserIds, is_active \in BOOLEAN : db_set_is_active(user_id, is_active)

PasswordSpec == Init /\ [][PasswordNext]_vars

\* users, their tasks, and an admin who deletes users
CascadeNext ==
    \/ \E user_data \in {Alice, Bob} : register(user_data)
    \/ \E user_credentials \in UserLogin({Alice, Bob}) : login(user_credentials)
    \/ \E token \in issued : create_task(token)
    \/ \E token \in issued, user_id \in UserIds : delete_user(token, user_id)
    \/ send_response
    \/ \E user_id \in UserIds : db_set_role(user_id, "admin")

CascadeSpec == Init /\ [][CascadeNext]_vars

\* the pages a client asks for: the default one, and the second task alone
Pages == {[skip |-> 0, limit |-> DEFAULT_LIMIT], [skip |-> 1, limit |-> 1]}

\* several users' task lists, one of them longer than a page
ListNext ==
    \/ \E user_data \in {Alice, Bob} : register(user_data)
    \/ \E user_credentials \in UserLogin({Alice, Bob}) : login(user_credentials)
    \/ \E token \in issued :
          /\ token.payload.username = Alice.username \/ Cardinality(tasks) < MaxTaskId
          /\ create_task_upto(token, MaxListed)
    \/ \E token \in issued, page \in Pages :
          get_tasks(token, TaskStatus, BOOLEAN, page.skip, page.limit)
    \/ \E token \in issued, task_id \in TaskIds : delete_task(token, task_id)
    \/ send_response

ListSpec == Init /\ [][ListNext]_vars

\* every protected route, called with any bearer string
ProtectedNext ==
    \/ \E user_data \in {Bob} : register(user_data)
    \/ \E user_credentials \in UserLogin({Bob}) : login(user_credentials)
    \/ \E token \in Bearers : logout(token)
    \/ \E token \in Bearers : verify(token)
    \/ \E token \in Bearers : get_current_user_info(token)
    \/ \E token \in Bearers : create_task(token)
    \/ \E token \in Bearers : get_tasks(token, TaskStatus, BOOLEAN, 0, DEFAULT_LIMIT)
    \/ \E token \in Bearers, task_id \in TaskIds : get_task(token, task_id)
    \/ \E token \in Bearers, task_id \in TaskIds :
          update_task(token, task_id, [fields |-> {"status"}, status |-> "in_progress",
                                       completed |-> TRUE])
    \/ \E token \in Bearers, task_id \in TaskIds : complete_task(token, task_id)
    \/ \E token \in Bearers, task_id \in TaskIds : delete_task(token, task_id)
    \/ \E token \in Bearers : get_all_users(token)
    \/ \E token \in Bearers, user_id \in UserIds : delete_user(token, user_id)
    \/ \E token \in Bearers : get_all_tasks(token)
    \/ send_response
    \/ Tick
    \/ db_set_is_active(1, FALSE)

ProtectedSpec == Init /\ [][ProtectedNext]_vars

\* logins against rows whose stored hash was written by something else
HashNext ==
    \/ \E user_data \in {Alice, Bob} : register(user_data)
    \/ \E user_credentials \in UserLogin({Alice, Bob}) : login(user_credentials)
    \/ \E user_id \in UserIds,
          hashed_password \in {Unrecognised, MalformedBcrypt, get_password_hash(Secret)} :
          db_set_hashed_password(user_id, hashed_password)
    \/ send_response

HashSpec == Init /\ [][HashNext]_vars

\* records of the user service and their updates
UpdateNext ==
    \/ \E user_data \in {Alice, Bob} : UserService_register(user_data)
    \/ \E user_id \in UserIds, user_data \in UserUpdates :
          UserService_update(user_id, user_data)
    \/ svc_return
    \/ Tick

UpdateSpec == Init /\ [][UpdateNext]_vars

\* the routes of main.py alone: nothing writes the database but the handlers
HandlerNext ==
    \/ \E user_data \in {Alice, Bob} : register(user_data)
    \/ \E user_credentials \in UserLogin({Alice, Bob}) : login(user_credentials)
    \/ \E token \in Bearers : create_task(token)
    \/ \E token \in Bearers : get_all_users(token)
    \/ \E token \in Bearers, user_id \in UserIds : delete_user(token, user_id)
    \/ \E token \in Bearers : get_all_tasks(token)
    \/ send_response
    \/ Tick

HandlerSpec == Init /\ [][HandlerNext]_vars

\* the user service called directly
ServiceNext ==
    \/ \E user_data \in {Alice, Bob} : UserService_register(user_data)
    \/ \E user_credentials \in UserLogin({Alice, Bob}) :
          \E p \in {Alice, Bob} : UserService_login(p.email, user_credentials.password)
    \/ \E token \in SvcBearers : UserService_verify(token)
    \/ \E user_id \in UserIds, user_data \in UserUpdates :
          UserService_update(user_id, user_data)
    \/ \E user_id \in UserIds : UserService_delete(user_id)
    \/ \E user_id \in UserIds : UserService_logout(user_id)
    \/ svc_return
    \/ Tick
    \/ \E user_id \in UserIds, is_active \in BOOLEAN :
          svc_db_set_is_active(user_id, is_active)

ServiceSpec == Init /\ [][ServiceNext]_vars

\* ---------------------------------------------------------------- claims
\* the principal a bearer string resolves to, as a set: empty when it does not resolve
Principal(token) ==
    IF get_current_user(token).code = HTTP_200_OK
    THEN {get_current_user(token).user} ELSE {}

\* a per-task request by token on task_id
TaskRequest(token, task_id) ==
    \/ get_task(token, task_id)
    \/ \E task_data \in TaskUpdates : update_task(token, task_id, task_data)
    \/ complete_task(token, task_id)
    \/ delete_task(token, task_id)

\* C1: resolving a token returns a principal iff, at the time of the call, its
\* signature is valid under the server secret, now < expires_at, and its subject
\* is the id of an existing record whose is_active is true; otherwise it fails.
\* Stated of UserService.verify.
C1_ResolveIffValidAndActive ==
    [][\A token \in SvcBearers :
          UserService_verify(token)
          => ( svc_resp'.raised = ""
               <=> ( /\ token.form = "jwt"
                     /\ token.sig = HS256(token.payload, settings_SECRET_KEY)
                     /\ now < token.payload.exp
                     /\ \E u \in svc_users :
                           u.id = UUID(token.payload.sub) /\ u.is_active ) )]_vars

\* C1, the part about is_active alone: a principal UserService.verify returns is
\* an active record.
C1_ServicePrincipalIsActive ==
    (svc_resp.op = "verify" /\ svc_resp.raised = "")
        => \A u \in svc_resp.body : u.is_active

\* C1 of get_current_user: 200 with the row iff the signature is valid, now <
\* exp and the subject is an active row
C1_GetCurrentUserIffValidAndActive ==
    \A token \in Bearers :
        get_current_user(token).code = HTTP_200_OK
        <=> ( /\ token.form = "jwt"
              /\ token.sig = HS256(token.payload, SECRET_KEY)
              /\ now < token.payload.exp
              /\ \E u \in users : u.id = token.payload.sub /\ u.is_active )

\* C2: for two distinct non-admin users A and B and a task owned by B, each of
\* A's get_task, update_task, complete_task and delete_task requests on that task
\* is answered 403 Forbidden.
C2_CrossUserForbidden ==
    [][\A token \in Bearers, task_id \in TaskIds :
          \A a \in Principal(token), t \in tasks :
              ( /\ t.id = task_id
                /\ t.owner_id # a.id
                /\ a.role # "admin"
                /\ TaskRequest(token, task_id) )
              => resp'.code = HTTP_403_FORBIDDEN]_vars

\* C3: the ownership check allows a per-task request iff the principal owns the
\* task or the principal's role is admin; so an admin reads, updates and deletes
\* any task.
C3_OwnerOrAdminAllowed ==
    [][\A token \in Bearers, task_id \in TaskIds :
          \A a \in Principal(token), t \in tasks :
              (t.id = task_id /\ TaskRequest(token, task_id))
              => ( resp'.code \in {HTTP_200_OK, HTTP_204_NO_CONTENT}
                   <=> (a.id = t.owner_id \/ a.role = "admin") )]_vars

\* C4: in every reachable state no two rows of users share an email and no two
\* share a username.
C4_UniqueEmailAndUsername ==
    \A u \in users, v \in users :
        u # v => (u.email # v.email /\ u.username # v.username)

\* C4 witness: the unique constraint has just refused the insert of a racing
\* registration while another row holds the email or the username
C4_Witness ==
    /\ resp.op = "register"
    /\ resp.code = HTTP_500_INTERNAL_SERVER_ERROR
    /\ Cardinality(users) = 2

\* C5: when two registrations with the same email interleave, exactly one row
\* with that email exists afterwards and the losing registration is answered
\* Duplicate (400), like any registration that does not create a row.
C5_RaceLoserGetsDuplicate ==
    /\ \A u \in users, v \in users : u # v => u.email # v.email
    /\ (resp.op = "register" /\ resp.code # HTTP_201_CREATED)
          => resp.code = HTTP_400_BAD_REQUEST

\* C6: a registration whose email or username an existing row already has is
\* answered 400 and leaves users unchanged, so exactly one row with that email
\* (or username) exists afterwards.
C6_DuplicateRejected ==
    [][\A c \in Clients, user_data \in Colliding :
          ( /\ register_query(c, user_data)
            /\ \E u \in users :
                  u.email = user_data.email \/ u.username = user_data.username )
          => ( /\ resp'.code = HTTP_400_BAD_REQUEST
               /\ users' = users
               /\ Cardinality({u \in users' : u.email = user_data.email}) <= 1
               /\ Cardinality({u \in users' : u.username = user_data.username}) <= 1 )]_vars

\* C6 witness: a registration was refused for its username alone
C6_Witness ==
    /\ resp.op = "register"
    /\ resp.code = HTTP_400_BAD_REQUEST
    /\ resp.detail = "Username already taken"
    /\ Cardinality(users) = 1

\* C7: once is_active of an account is false, every resolve with an unaltered,
\* still-unexpired token issued to it fails with AccountInactive. Stated of
\* UserService.verify, which has no failure other than UnauthorizedException and
\* UserNotFoundException: at the least the resolve fails.
C7_DeactivatedTokenRejected ==
    [][\A token \in svc_issued :
          ( /\ UserService_verify(token)
            /\ now < token.payload.exp
            /\ \E u \in svc_users : u.id = UUID(token.payload.sub) /\ ~u.is_active )
          => svc_resp'.raised # ""]_vars

\* C7 of get_current_user: an unexpired issued token of an inactive row is
\* answered 403 Inactive user
C7_GetCurrentUserInactive ==
    \A token \in issued :
        ( /\ now < token.payload.exp
          /\ \E u \in users : u.id = token.payload.sub /\ ~u.is_active )
        => ( /\ get_current_user(token).code = HTTP_403_FORBIDDEN
             /\ get_current_user(token).detail = "Inactive user" )

\* C8: an admin-only request is allowed iff the role stored in the row of the
\* resolved user is admin at the time of the request, whatever role claim the
\* token carries; after a change from admin to user the next such request with
\* the old token is answered 403.
C8_RoleReadFromRecord ==
    [][\A token \in Bearers :
          ( /\ token.form = "jwt"
            /\ jwt_decode(token) = "ok"
            /\ get_all_users(token) )
          => \/ /\ resp'.code = HTTP_200_OK
                /\ \E u \in users :
                      u.id = token.payload.sub /\ u.is_active /\ u.role = "admin"
             \/ /\ resp'.code = HTTP_403_FORBIDDEN
                /\ \E u \in users :
                      u.id = token.payload.sub /\ (~u.is_active \/ u.role # "admin")
             \/ /\ resp'.code = HTTP_401_UNAUTHORIZED
                /\ ~\E u \in users : u.id = token.payload.sub]_vars

\* C8 witness: the only token ever issued carries role admin, its account is
\* active with role user now, and an admin-only request was just refused
C8_Witness ==
    /\ resp.op = "get_all_users"
    /\ resp.code = HTTP_403_FORBIDDEN
    /\ resp.detail = "Insufficient permissions"
    /\ \E t \in issued :
          /\ issued = {t}
          /\ t.payload.role = "admin"
          /\ \E u \in users : u.id = t.payload.sub /\ u.role = "user" /\ u.is_active

\* C9: a bearer string that fails to decode and a validly signed, unexpired token
\* whose subject has no row get the same failure from get_current_user: same
\* status code and same detail.
C9_SameUnauthenticated ==
    \A t1 \in Bearers, t2 \in Bearers :
        ( /\ t1.form # "absent"
          /\ jwt_decode(t1) # "ok"
          /\ jwt_decode(t2) = "ok"
          /\ UsersById(t2.payload.sub) = {} )
        => AuthFailure("me", get_current_user(t1)) = AuthFailure("me", get_current_user(t2))

\* C10: once the row a token was issued to is deleted, the token fails with 401
\* in every later state, and an issued token never resolves to an account other
\* than the one it was issued to.
C10_DeletedStaysUnauthenticated ==
    [][\A t \in issued :
          /\ (UsersById(t.payload.sub) = {})
                => (get_current_user(t).code = HTTP_401_UNAUTHORIZED)'
          /\ \A u \in Principal(t)' : u.username = t.payload.username]_vars

\* C11: for every issued token and every decode time now, decode fails with
\* Expired when now >= expires_at and does not fail with Expired when now <
\* expires_at, the clock being read at decode time. Stated of the decode of
\* UserService.verify_token.
C11_ExpiredFromExpiresAt ==
    \A token \in svc_issued :
        (jose_decode(token) = "ExpiredSignatureError") <=> (now >= token.payload.exp)

\* C11 of decode_token: jwt.decode raises ExpiredSignatureError exactly from exp on
C11_DecodeTokenExpiredFromExp ==
    \A token \in issued :
        (jwt_decode(token) = "ExpiredSignatureError") <=> (now >= token.payload.exp)

C13_OneByteOffRejected ==
    [][\A t \in issued : \A token \in OneByteOff(t) :
          get_current_user_info(token)
          => ( /\ jwt_decode(token) = "InvalidSignatureError"
               /\ resp'.code = HTTP_401_UNAUTHORIZED )]_vars

\* C13, the part about resolving alone: no bearer string one character away
\* from an issued token is answered with a principal
C13_OneByteOffNeverResolves ==
    \A t \in issued : \A token \in OneByteOff(t) :
        get_current_user(token).code # HTTP_200_OK

\* C13, the signature and the payload alone: an issued token whose payload or
\* signature bytes were changed fails with an invalid signature
C13_ChangedBytesRejected ==
    \A t \in issued : \A token \in OneByteOff(t) :
        (token.form = "jwt" /\ (token.payload # t.payload \/ token.sig # t.sig))
        => jwt_decode(token) = "InvalidSignatureError"

\* a request to an admin-only route by token
AdminRequest(token) ==
    \/ get_all_users(token)
    \/ \E user_id \in UserIds : delete_user(token, user_id)
    \/ get_all_tasks(token)

\* C14: the role check allows a principal iff its role is the required role or
\* admin, for every principal role and every required role; list users, delete
\* user and list all tasks answer every non-admin principal 403 and change
\* nothing, and no admin principal 403.
C14_RoleCheck ==
    [][\A token \in issued : \A a \in Principal(token) :
          /\ \A required_role \in UserRole :
                check_user_permission(a, required_role)
                <=> (a.role = required_role \/ a.role = "admin")
          /\ AdminRequest(token)
                => /\ (resp'.code = HTTP_403_FORBIDDEN) <=> (a.role # "admin")
                   /\ (a.role # "admin") => (users' = users /\ tasks' = tasks)]_vars

\* C14 witness: a principal whose role is guest has just been refused the list of
\* all tasks
C14_Witness ==
    /\ resp = Insufficient("get_all_tasks")
    /\ \E t \in issued :
          /\ issued = {t}
          /\ t.payload.role = "guest"
          /\ \E u \in users : u.id = t.payload.sub /\ u.role = "guest" /\ u.is_active

\* the password a username is registered with
RegisteredPassword(username) ==
    (CHOOSE user_data \in {Alice, Bob, Carol, Dave} : user_data.username = username).password

C15_ServiceSameInvalidCredentials ==
    (svc_resp.op = "login" /\ svc_resp.raised # "")
        => svc_resp = SvcRaise("login", "InvalidCredentialsException",
                               "Invalid email or password")

\* C16: verify(q, hash(p)) is true exactly when q = p; so after register(u, p) of
\* an active account, login(u, q) succeeds and issues a token iff q = p.
C16_LoginIffSamePassword ==
    [][\A user_credentials \in [username : {Alice.username, Dave.username},
                                password : Passwords] :
          \A u \in users :
              ( /\ login(user_credentials)
                /\ u.username = user_credentials.username
                /\ u.is_active )
              => ( /\ (resp'.code = HTTP_200_OK)
                         <=> (user_credentials.password = RegisteredPassword(u.username))
                   /\ (issued' # issued) => (resp'.code = HTTP_200_OK) )]_vars

\* C16, the function alone: verify_password(q, get_password_hash(p)) iff q = p
C16_VerifyIffSamePassword ==
    \A p \in Passwords, q \in Passwords :
        verify_password(q, get_password_hash(p)) <=> (q = p)

\* C16 for passwords of at most 72 bytes: a login succeeds iff the password is
\* the registered one
C16_ShortPasswords ==
    [][\A user_credentials \in [username : {Alice.username, Dave.username},
                                password : {p \in Passwords : p.tail = ""}] :
          \A u \in users :
              ( /\ login(user_credentials)
                /\ u.username = user_credentials.username
                /\ u.is_active
                /\ RegisteredPassword(u.username).tail = "" )
              => ( (resp'.code = HTTP_200_OK)
                     <=> (user_credentials.password = RegisteredPassword(u.username)) )]_vars

\* does a serialised record carry a password or a hash
Leaks(record) ==
    \/ {"password", "hashed_password", "password_hash"} \cap DOMAIN record # {}
    \/ \E p \in Passwords : p.head \in {record.username}

\* C17: no response of register, login, verify or get_current_user_info contains
\* the plaintext password or the stored hash, and the stored hash of a row is
\* never the plaintext.
C17_NoPasswordInResponses ==
    /\ \A u \in users : \A p \in Passwords : u.hashed_password # <<p.head, p.tail>>
    /\ \A u \in users : \A p \in Passwords : u.hashed_password # <<p.head>>
    /\ resp.op \in {"register", "verify", "me"} => \A b \in resp.body : ~Leaks(b)
    /\ resp.op = "login"
          => \A b \in resp.body :
                /\ DOMAIN b = {"access_token", "user"}
                /\ ~Leaks(b.user)
                /\ ~Leaks(b.access_token.payload)

\* C17 witness: a login has just returned the token and the user
C17_Witness ==
    /\ resp.op = "login"
    /\ resp.code = HTTP_200_OK
    /\ \E b \in resp.body : b.user.username = Dave.username

\* C18: deleting a user removes every task whose owner_id references it, so each
\* task's owner_id is always the id of an existing user.
C18_NoOrphanTasks ==
    \A t \in tasks : \E u \in users : u.id = t.owner_id

\* C18 witness: a user who had created a task has just been deleted, and the
\* task went with the user
C18_Witness ==
    /\ resp = Reply("delete_user", HTTP_204_NO_CONTENT, "", {})
    /\ backend = "postgresql"
    /\ task_id_seq > 0
    /\ tasks = {}

\* the e-mail address a username is registered with
RegisteredEmail(username) ==
    (CHOOSE user_data \in {Alice, Bob, Carol, Dave} : user_data.username = username).email

\* the 'who am I' response is the identity the token was issued to
SameIdentity(token, response) ==
    response.code = HTTP_200_OK
        => \A b \in response.body :
              /\ b.id = token.payload.sub
              /\ b.username = token.payload.username
              /\ b.email = RegisteredEmail(token.payload.username)

\* C19: a token obtained by logging in as user u and presented unaltered, before
\* expiry, to get_current_user_info returns u's identity (id, username, email)
\* and never another user's.
C19_TokenReturnsItsUser ==
    [][\A token \in issued :
          get_current_user_info(token) => SameIdentity(token, resp')]_vars

\* C19 where user ids are never reused
C19_PostgresTokenReturnsItsUser ==
    [][\A token \in issued :
          (get_current_user_info(token) /\ backend = "postgresql")
              => SameIdentity(token, resp')]_vars

\* the steps of the delete scenario, with the signal a non-owner's delete gets
DeleteScenario(token, task_id, refusal) ==
    /\ \A a \in Principal(token), t \in tasks :
          ( /\ t.id = task_id
            /\ t.owner_id # a.id
            /\ a.role # "admin"
            /\ delete_task(token, task_id) )
          => (resp'.code = refusal /\ tasks' = tasks)
    /\ \A a \in Principal(token), t \in tasks :
          ( /\ t.id = task_id
            /\ t.owner_id = a.id
            /\ delete_task(token, task_id) )
          => ( /\ resp'.code = HTTP_204_NO_CONTENT
               /\ \A x \in tasks' : x.id # task_id )
    /\ \A a \in Principal(token) :
          ( /\ \A t \in tasks : t.id # task_id
            /\ get_task(token, task_id) )
          => resp'.code = HTTP_404_NOT_FOUND

\* C20: a user creates a task; a different authenticated user's delete of it is
\* rejected with 403 Forbidden and leaves the task in place; the owner's delete
\* then succeeds; every read of that task id afterwards returns 404 NotFound.
C20_ForbiddenThenDeletedThenNotFound ==
    [][\A token \in Bearers, task_id \in TaskIds :
          DeleteScenario(token, task_id, HTTP_403_FORBIDDEN)]_vars

\* C20 with the signal the routes give a non-owner: the delete is refused and
\* leaves the task in place, the owner's delete succeeds, later reads are 404
C20_RefusedThenDeletedThenNotFound ==
    [][\A token \in Bearers, task_id \in TaskIds :
          DeleteScenario(token, task_id, HTTP_404_NOT_FOUND)]_vars

\* the tasks a principal created and still holds
OwnTasks(a) == {t \in tasks : t.owner_id = a.id}

ProtectedRequest(token) ==
    \/ resp'.op = "logout" /\ logout(token)
    \/ resp'.op = "verify" /\ verify(token)
    \/ resp'.op = "me" /\ get_current_user_info(token)
    \/ resp'.op = "create_task" /\ create_task(token)
    \/ resp'.op = "get_tasks" /\ get_tasks(token, TaskStatus, BOOLEAN, 0, DEFAULT_LIMIT)
    \/ resp'.op = "get_task" /\ \E task_id \in TaskIds : get_task(token, task_id)
    \/ resp'.op = "update_task"
          /\ \E task_id \in TaskIds, task_data \in TaskUpdates :
                update_task(token, task_id, task_data)
    \/ resp'.op = "complete_task" /\ \E task_id \in TaskIds : complete_task(token, task_id)
    \/ resp'.op = "delete_task" /\ \E task_id \in TaskIds : delete_task(token, task_id)
    \/ resp'.op = "get_all_users" /\ get_all_users(token)
    \/ resp'.op = "delete_user" /\ \E user_id \in UserIds : delete_user(token, user_id)
    \/ resp'.op = "get_all_tasks" /\ get_all_tasks(token)

C23_ServiceExpiresByTimeOnly ==
    \A token \in svc_issued :
        /\ now >= token.payload.exp => VerifyResult(token).raised # ""
        /\ ( /\ now < token.payload.exp
             /\ \E u \in svc_users : u.id = UUID(token.payload.sub) /\ u.is_active )
           => VerifyResult(token).raised = ""

\* C23 of get_current_user: an issued token resolves at every time before exp
\* while its row exists and is active, whatever logouts and logins happened, and
\* at no time from exp on
C23_ExpiresByTimeOnly ==
    \A token \in issued :
        /\ now >= token.payload.exp => Principal(token) = {}
        /\ ( /\ now < token.payload.exp
             /\ \E u \in users : u.id = token.payload.sub /\ u.is_active )
           => Principal(token) # {}

\* C23 of get_current_user, the steps: logout and login leave every issued token
\* as resolvable as it was
C23_LogoutAndLoginRevokeNothing ==
    [][(resp'.op \in {"logout", "login"} /\ now' = now)
          => /\ issued \subseteq issued'
             /\ \A token \in issued : Principal(token)' = Principal(token)]_vars

\* C24: every token issued by login or register carries the claim set
\* {subject_id, username, role, issued_at, expires_at}, with expires_at =
\* issued_at + ttl, ttl being the time-to-live configured for the issue. Stated
\* of the tokens login issues.
C24_TokenClaimSet ==
    \A token \in issued :
        /\ DOMAIN token.payload = {"sub", "username", "role", "iat", "exp"}
        /\ token.payload.exp
              = token.payload.iat + timedelta_minutes(ACCESS_TOKEN_EXPIRE_MINUTES)

\* C24, what login does issue: sub, username, role and exp, with exp the whole
\* second of the issue time plus ACCESS_TOKEN_EXPIRE_MINUTES
C24_LoginClaimSet ==
    [][\A token \in issued' \ issued :
          /\ DOMAIN token.payload = {"sub", "username", "role", "exp"}
          /\ token.payload.exp
                = timegm(now) + timedelta_minutes(ACCESS_TOKEN_EXPIRE_MINUTES)
          /\ \E u \in users : /\ u.id = token.payload.sub
                              /\ u.username = token.payload.username
                              /\ u.role = token.payload.role]_vars

\* C24 of UserService.register and UserService.login: sub, email, iat and exp,
\* with exp = iat + the configured minutes
C24_ServiceClaimSet ==
    \A token \in svc_issued :
        /\ DOMAIN token.payload = {"sub", "email", "iat", "exp"}
        /\ token.payload.exp
              = token.payload.iat
                + timedelta_minutes(settings_ACCESS_TOKEN_EXPIRE_MINUTES)

\* C25: verify(plaintext, stored_hash) returns false, and never raises, for every
\* malformed or unrecognised stored hash; a login against a record with such a
\* hash therefore fails with InvalidCredentials (401), not an unexpected error.
C25_MalformedHashIsInvalidCredentials ==
    [][\A user_credentials \in UserLogin({Alice, Bob}) :
          ( /\ login(user_credentials)
            /\ \E u \in users : /\ u.username = user_credentials.username
                                /\ u.hashed_password \in {Unrecognised, MalformedBcrypt} )
          => ( /\ pwd_context_verify(user_credentials.password, Unrecognised) = "False"
               /\ pwd_context_verify(user_credentials.password, MalformedBcrypt) = "False"
               /\ resp' = Reply("login", HTTP_401_UNAUTHORIZED,
                                "Incorrect username or password", {}) )]_vars

\* C25, what does hold: such a login issues no token and changes no row
C25_MalformedHashIssuesNothing ==
    [][\A user_credentials \in UserLogin({Alice, Bob}) :
          ( /\ login(user_credentials)
            /\ \E u \in users : /\ u.username = user_credentials.username
                                /\ u.hashed_password \in {Unrecognised, MalformedBcrypt} )
          => ( /\ resp'.code = HTTP_500_INTERNAL_SERVER_ERROR
               /\ issued' = issued
               /\ users' = users )]_vars

\* C26: a successful update changes exactly the fields present in the request,
\* leaves every other field of that record and every other record unchanged, and
\* refreshes updated_at; an update that fails (NotFound, Duplicate) changes
\* nothing. Stated of UserService.update.
C26_UpdateChangesPresentFieldsOnly ==
    [][\A user_id \in UserIds, user_data \in UserUpdates :
          UserService_update(user_id, user_data)
          => IF svc_resp'.raised # ""
             THEN svc_users' = svc_users /\ svc_issued' = svc_issued
             ELSE \E old \in svc_users, new \in svc_users' :
                    /\ old.id = user_id
                    /\ new.id = user_id
                    /\ new.email = (IF user_data.email # None
                                    THEN user_data.email ELSE old.email)
                    /\ new.name = (IF user_data.name # None
                                   THEN user_data.name ELSE old.name)
                    /\ new.password_hash = (IF user_data.password # NoPassword
                                            THEN get_password_hash(user_data.password)
                                            ELSE old.password_hash)
                    /\ new.is_active = old.is_active
                    /\ new.updated_at = now
                    /\ svc_users' \ {new} = svc_users \ {old}
                    /\ svc_issued' = svc_issued]_vars

\* C26 witness: an update of the password alone has succeeded on a record
\* created earlier, while another record exists
C26_Witness ==
    /\ svc_resp.op = "update"
    /\ svc_resp.raised = ""
    /\ now > 0
    /\ \E u \in svc_users : /\ u.updated_at = now
                            /\ u.email = Alice.email
                            /\ u.name = Alice.username
                            /\ u.password_hash = get_password_hash(WrongPassword)
    /\ \E u \in svc_users : u.updated_at < now

\* C26 of update_task: a successful update sets the fields of the request and
\* updated_at and nothing else; a refused one changes nothing
C26_UpdateTaskChangesPresentFieldsOnly ==
    [][\A token \in Bearers, task_id \in TaskIds, task_data \in TaskUpdates :
          (resp'.op = "update_task" /\ update_task(token, task_id, task_data))
          => IF resp'.code # HTTP_200_OK
             THEN tasks' = tasks
             ELSE \E old \in tasks, new \in tasks' :
                    /\ old.id = task_id
                    /\ new.id = task_id
                    /\ new.owner_id = old.owner_id
                    /\ new.status = (IF "status" \in task_data.fields
                                     THEN task_data.status ELSE old.status)
                    /\ new.completed = (IF "completed" \in task_data.fields
                                        THEN task_data.completed ELSE old.completed)
                    /\ new.updated_at = now
                    /\ tasks' \ {new} = tasks \ {old}
                    /\ users' = users]_vars

\* C27: every row register creates has role user and is_active true, and no
\* route changes the role or is_active of a row; so, starting with no admin row,
\* every admin-only request of an authenticated user is answered 403 Forbidden
\* (an unauthenticated one 401), and none ever succeeds.
C27_NoAdminEver ==
    [][/\ \A u \in users' : u.role = "user" /\ u.is_active
       /\ \A token \in Bearers :
             (resp'.op \in {"get_all_users", "delete_user", "get_all_tasks"}
                /\ AdminRequest(token))
             => /\ resp'.code \in {HTTP_401_UNAUTHORIZED, HTTP_403_FORBIDDEN}
                /\ Principal(token) # {} => resp' = Insufficient(resp'.op)
                /\ users' = users
                /\ tasks' = tasks]_vars

\* C27 witness: a registered, logged-in user's delete_user has been refused while
\* two accounts and a task exist
C27_Witness ==
    /\ resp = Insufficient("delete_user")
    /\ Cardinality(users) = 2
    /\ tasks # {}

C29_NoSelfDelete ==
    [][\A token \in issued, user_id \in UserIds :
          \A a \in Principal(token) :
              ( /\ resp'.op = "delete_user"
                /\ delete_user(token, user_id)
                /\ a.role = "admin" )
              => ( /\ a \in users'
                   /\ user_id = a.id
                         => ( /\ resp' = Reply("delete_user", HTTP_400_BAD_REQUEST,
                                               "Cannot delete your own account", {})
                              /\ users' = users
                              /\ tasks' = tasks )
                   /\ (user_id # a.id /\ UsersById(user_id) = {})
                         => ( /\ resp' = Reply("delete_user", HTTP_404_NOT_FOUND,
                                               "User not found", {})
                              /\ users' = users
                              /\ tasks' = tasks ) )]_vars

\* C29 witness: an admin who holds a task has asked to delete their own account
\* and was refused
C29_Witness ==
    /\ resp = Reply("delete_user", HTTP_400_BAD_REQUEST, "Cannot delete your own account", {})
    /\ \E u \in users : u.role = "admin" /\ \E t \in tasks : t.owner_id = u.id

====
